---- MODULE Spec2Model ----
(***************************************************************************)
(* Model of the probe-ETA estimator of endobit/wifire:                     *)
(*   - ExponentialPredictor (exponential.go)                               *)
(*   - the status loop that feeds it and blends its ETA with the legacy    *)
(*     linear estimate (cmd/root.go status / monitor.Run)                  *)
(*                                                                         *)
(* Arithmetic.  The program computes in float64; the model computes in     *)
(* fixed point on integers:                                                *)
(*   temperatures        milli-degrees   (TempScale  = 1000)               *)
(*   exp() and ln()      1/10000         (ExpScale   = 10000)              *)
(*   squared errors      centi-degrees^2                                   *)
(*   rates               micro-degrees per second                          *)
(*   instants            whole seconds (Status.Time is time.Unix(sec, 0))  *)
(*   durations           milliseconds                                      *)
(* With whole-degree inputs (Status fields are int) the effective          *)
(* equilibrium is a multiple of 0.002 degree, so it is exact in            *)
(* milli-degrees.  exp and ln are evaluated by series to about 1e-4.       *)
(***************************************************************************)
EXTENDS Integers, Sequences, FiniteSets, TLC

VARIABLES
    ep,        \* the ExponentialPredictor instance (record of its fields)
    history,   \* the status loop's history slice ([]wifire.Status)
    env,       \* the grill as the telemetry source sees it
    asked,     \* a direct call of a query method that has not returned yet
    answered,  \* ghost: the PredictTemperature call that returned last since
               \* the latest status
    eqCall,    \* an evaluation of calculateEffectiveEquilibrium on its own
    supplied,  \* ghost: every observation handed to Update, in call order
    last,      \* ghost: what the most recent iteration of the loop did
    client,    \* the wifire.Client: its connection fields and connected flag
    net        \* the broker link, monitor.Run's position and, as ghosts, what
               \* the latest MQTTConnect and the latest login did

vars == <<ep, history, env, asked, answered, eqCall, supplied, last, client, net>>

----------------------------------------------------------------------------
(* Scales of the fixed-point representation *)

TempScale == 1000
ExpScale  == 10000
MsPerSec  == 1000
RateScale == 1000000      \* rates in micro-degrees per second

(* Bounds of the exploration *)
MaxStatuses     == 4    \* statuses delivered in one session
MaxTurns        == 1    \* times the telemetry may leave its current trend
MaxLongStatuses == 22   \* statuses delivered in one steady session

----------------------------------------------------------------------------
(* Integer helpers *)

Abs(x) == IF x < 0 THEN -x ELSE x
Min(a, b) == IF a < b THEN a ELSE b
Max(a, b) == IF a > b THEN a ELSE b

\* floor(a*b/c) for c > 0 and b >= 0 without forming a*b for large a
MulDiv(a, b, c) == (a \div c) * b + ((a % c) * b) \div c

Deg(n) == n * TempScale

----------------------------------------------------------------------------
(* math.Exp and math.Log in fixed point *)

\* e^-a * ExpScale for a = 0..9 (index a+1); e^-a rounds to 0 from a = 10
ExpIntTable == <<10000, 3679, 1353, 498, 183, 67, 25, 9, 3, 1>>

\* e^-(f/ExpScale) * ExpScale for 0 <= f < ExpScale: Taylor series of order 8
\* in Horner form, 1 - f(1 - f/2(1 - f/3( ... (1 - f/8))))
ExpFrac(f) ==
    LET h8 == ExpScale - f \div 8
        h7 == ExpScale - (f * h8) \div (7 * ExpScale)
        h6 == ExpScale - (f * h7) \div (6 * ExpScale)
        h5 == ExpScale - (f * h6) \div (5 * ExpScale)
        h4 == ExpScale - (f * h5) \div (4 * ExpScale)
        h3 == ExpScale - (f * h4) \div (3 * ExpScale)
        h2 == ExpScale - (f * h3) \div (2 * ExpScale)
    IN  ExpScale - (f * h2) \div ExpScale

\* math.Exp(-elapsed/tau) * ExpScale, for elapsed >= 0 and tau > 0
ExpNeg(elapsed, tau) ==
    LET a == elapsed \div tau
        f == ((elapsed % tau) * ExpScale) \div tau
    IN  IF a >= Len(ExpIntTable) THEN 0
        ELSE (ExpIntTable[a + 1] * ExpFrac(f)) \div ExpScale

Ln2 == 6931    \* ln 2 * ExpScale

\* the k >= 0 with d/2 < n * 2^k <= d, and that n * 2^k  (0 < n <= d)
RECURSIVE LnNormalize(_, _, _)
LnNormalize(n, d, k) ==
    IF 2 * n > d THEN <<n, k>> ELSE LnNormalize(2 * n, d, k + 1)

\* 2 atanh(z) * ExpScale by its series to z^9, in Horner form, for z2 = z^2
Atanh2(z, z2) ==
    LET s7 == ExpScale \div 7 + (z2 * (ExpScale \div 9)) \div ExpScale
        s5 == ExpScale \div 5 + (z2 * s7) \div ExpScale
        s3 == ExpScale \div 3 + (z2 * s5) \div ExpScale
        s1 == ExpScale + (z2 * s3) \div ExpScale
    IN  2 * ((z * s1) \div ExpScale)

\* k ln 2 + 2 atanh(z), z = (d - m)/(d + m), for nk = <<m, k>>
LnSeries(k, z) == k * Ln2 + Atanh2(z, (z * z) \div ExpScale)
LnOf(nk, d) == LnSeries(nk[2], MulDiv(d - nk[1], ExpScale, d + nk[1]))

\* -math.Log(n/d) * ExpScale for 0 < n < d:
\* -ln(n/d) = k ln 2 + 2 atanh(z), z = (d - m)/(d + m), m = n * 2^k
LnNeg(n, d) == LnOf(LnNormalize(n, d, 0), d)

----------------------------------------------------------------------------
(* ExponentialPredictor *)

\* faulty variant: the guard of the fit is off by one
minDataPoints_Two == 3 - 1

minDataPoints == 3
MaxHistory    == 20       \* samples kept by Update
DefaultTau    == 3600     \* seconds
TauStep       == 300      \* first candidate and step of the tau search
TauMax        == 28800    \* last candidate of the tau search
FitWindow     == 10       \* samples the tau search fits
Inf           == 2147483647   \* math.Inf(1)
MaxSeconds    == 28800    \* cap of the exponential ETA: 8 * 3600

\* faulty variant: the constructor marks the empty predictor initialized
NewExponentialPredictor_Initialized ==
    [ targetTemp    |-> 0,
      startTemp     |-> 0,
      timeConstant  |-> 0,
      startTime     |-> 0,
      grillTemp     |-> 0,
      grillSetTemp  |-> 0,
      temperatures  |-> <<>>,
      grillTemps    |-> <<>>,
      grillSetTemps |-> <<>>,
      timestamps    |-> <<>>,
      initialized   |-> TRUE ]

NewExponentialPredictor ==
    [ targetTemp    |-> 0,
      startTemp     |-> 0,
      timeConstant  |-> 0,
      startTime     |-> 0,
      grillTemp     |-> 0,
      grillSetTemp  |-> 0,
      temperatures  |-> <<>>,
      grillTemps    |-> <<>>,
      grillSetTemps |-> <<>>,
      timestamps    |-> <<>>,
      initialized   |-> FALSE ]

\* faulty variant: a grillDelta of exactly 50 falls in the hottest band
RawEquilibrium_Inclusive(grillTemp, probeTarget) ==
    LET grillDelta == grillTemp - probeTarget
    IN  IF grillDelta >= Deg(50) THEN probeTarget + Min(grillDelta \div 10, Deg(10))
        ELSE IF grillDelta > Deg(20) THEN probeTarget + (grillDelta * 2) \div 10
        ELSE IF grillDelta > 0 THEN probeTarget + grillDelta \div 2
        ELSE grillTemp + Max((grillDelta * 3) \div 10, -Deg(20))

\* faulty variant: the moderately-hotter band subtracts its share of grillDelta
RawEquilibrium_SignFlip(grillTemp, probeTarget) ==
    LET grillDelta == grillTemp - probeTarget
    IN  IF grillDelta > Deg(50) THEN probeTarget + Min(grillDelta \div 10, Deg(10))
        ELSE IF grillDelta > Deg(20) THEN probeTarget - (grillDelta * 2) \div 10
        ELSE IF grillDelta > 0 THEN probeTarget + grillDelta \div 2
        ELSE grillTemp + Max((grillDelta * 3) \div 10, -Deg(20))

\* the raw equilibrium of the four grillDelta bands (the switch)
RawEquilibrium(grillTemp, probeTarget) ==
    LET grillDelta == grillTemp - probeTarget
    IN  IF grillDelta > Deg(50) THEN probeTarget + Min(grillDelta \div 10, Deg(10))
        ELSE IF grillDelta > Deg(20) THEN probeTarget + (grillDelta * 2) \div 10
        ELSE IF grillDelta > 0 THEN probeTarget + grillDelta \div 2
        ELSE grillTemp + Max((grillDelta * 3) \div 10, -Deg(20))

\* grillStability in 1/1000: 1.0 - |grillTemp - grillSetTemp| / 50.0, at least 0.5
GrillStability(grillTemp, grillSetTemp) ==
    Max(1000 - Abs(grillTemp - grillSetTemp) \div 50, 500)

calculateEffectiveEquilibrium(grillTemp, grillSetTemp, probeTarget) ==
    probeTarget
      + ((RawEquilibrium(grillTemp, probeTarget) - probeTarget)
           * GrillStability(grillTemp, grillSetTemp)) \div 1000

\* equilibrium - (equilibrium - startTemp) * math.Exp(-elapsed/tau)
Approach(equilibrium, startTemp, decay) ==
    equilibrium - MulDiv(equilibrium - startTemp, decay, ExpScale)

\* faulty variant: an instant before the start is mirrored onto the curve
predictAtTimeWithGrillDynamics_Mirror(p, t, tau, dataIdx) ==
    IF ~p.initialized THEN 0
    ELSE IF dataIdx < Len(p.grillTemps)
    THEN Approach(calculateEffectiveEquilibrium(p.grillTemps[dataIdx + 1],
                      p.grillSetTemps[dataIdx + 1], p.targetTemp),
                  p.startTemp, ExpNeg(Abs(t - p.startTime), tau))
    ELSE Approach(calculateEffectiveEquilibrium(p.grillTemp, p.grillSetTemp,
                      p.targetTemp),
                  p.startTemp, ExpNeg(Abs(t - p.startTime), tau))

\* dataIdx is the Go (0-based) index
predictAtTimeWithGrillDynamics(p, t, tau, dataIdx) ==
    IF ~p.initialized THEN 0
    ELSE IF t - p.startTime < 0 THEN p.startTemp
    ELSE IF dataIdx < Len(p.grillTemps)
    THEN Approach(calculateEffectiveEquilibrium(p.grillTemps[dataIdx + 1],
                      p.grillSetTemps[dataIdx + 1], p.targetTemp),
                  p.startTemp, ExpNeg(t - p.startTime, tau))
    ELSE Approach(calculateEffectiveEquilibrium(p.grillTemp, p.grillSetTemp,
                      p.targetTemp),
                  p.startTemp, ExpNeg(t - p.startTime, tau))

\* (predicted - actual)^2 in centi-degrees^2
Square(e) == e * e
SquaredError(predicted, actual) == Square(Abs(predicted - actual) \div 10)

\* sum of the squared errors of samples i .. len-1 (0-based)
RECURSIVE SumSquaredError(_, _, _)
SumSquaredError(p, tau, i) ==
    IF i >= Len(p.temperatures) THEN 0
    ELSE SquaredError(predictAtTimeWithGrillDynamics(p, p.timestamps[i + 1], tau, i),
                      p.temperatures[i + 1])
         + SumSquaredError(p, tau, i + 1)

calculateErrorWithGrillDynamics(p, tau, startIdx) ==
    LET count == Len(p.temperatures) - startIdx
    IN  IF count <= 0 THEN Inf
        ELSE SumSquaredError(p, tau, startIdx) \div count

\* faulty variant: the loop runs one step past 28800
TauCandidates_OneMore == { k * TauStep : k \in 1 .. (TauMax \div TauStep + 1) }

\* the candidates of the search loop: for tau := 300; tau <= 28800; tau += 300
TauCandidates == { k * TauStep : k \in 1 .. (TauMax \div TauStep) }

\* the loop keeps the first candidate of least error: of the pairs
\* <<error, tau>>, the one least in error and, among equals, least in tau
FirstLeast(scored) ==
    CHOOSE b \in scored :
        \A c \in scored : b[1] < c[1] \/ (b[1] = c[1] /\ b[2] <= c[2])

\* bestError starts at +Inf and bestTau at the current time constant: a
\* candidate replaces them only with an error below +Inf
SearchResult(best, p) == IF best[1] < Inf THEN best ELSE <<Inf, p.timeConstant>>

TauSearch(p, startIdx) ==
    SearchResult(FirstLeast({ <<calculateErrorWithGrillDynamics(p, tau, startIdx), tau>> :
                                  tau \in TauCandidates }), p)

\* faulty variant: any improvement is accepted
Improves_Any(bestError, currentError) == bestError < currentError

\* bestError < 0.9 * (error of the current time constant)
Improves(bestError, currentError) == 10 * bestError < 9 * currentError

\* the closing test of estimateTimeConstant
Accept(p, best, currentError) ==
    IF Improves(best[1], currentError) THEN [p EXCEPT !.timeConstant = best[2]] ELSE p

\* the fit over the samples from startIdx on
FitFrom(p, startIdx) ==
    Accept(p, TauSearch(p, startIdx),
           calculateErrorWithGrillDynamics(p, p.timeConstant, startIdx))

estimateTimeConstant(p) ==
    IF Len(p.temperatures) < minDataPoints THEN p
    ELSE FitFrom(p, IF Len(p.temperatures) > FitWindow
                    THEN Len(p.temperatures) - FitWindow ELSE 0)

\* faulty variant: the newest element is dropped, not the oldest
Evict_DropNewest(s) == IF Len(s) > MaxHistory THEN SubSeq(s, 1, MaxHistory) ELSE s

\* the slices after append and eviction
Evict(s) == IF Len(s) > MaxHistory THEN Tail(s) ELSE s

\* whether this Update call reaches estimateTimeConstant
Refits(p) == p.initialized /\ Len(Evict(Append(p.temperatures, 0))) >= minDataPoints

\* the first call: lines 44-59
FirstUpdate(probeTemp, timestamp, probeTargetTemp, grillTemp, grillSetTemp) ==
    [ targetTemp    |-> probeTargetTemp,
      startTemp     |-> probeTemp,
      timeConstant  |-> DefaultTau,
      startTime     |-> timestamp,
      grillTemp     |-> grillTemp,
      grillSetTemp  |-> grillSetTemp,
      temperatures  |-> <<probeTemp>>,
      grillTemps    |-> <<grillTemp>>,
      grillSetTemps |-> <<grillSetTemp>>,
      timestamps    |-> <<timestamp>>,
      initialized   |-> TRUE ]

\* every later call: lines 61-83
LaterUpdate(p, probeTemp, timestamp, probeTargetTemp, grillTemp, grillSetTemp) ==
    LET q == [p EXCEPT !.targetTemp    = probeTargetTemp,
                       !.grillTemp     = grillTemp,
                       !.grillSetTemp  = grillSetTemp,
                       !.temperatures  = Evict(Append(@, probeTemp)),
                       !.grillTemps    = Evict(Append(@, grillTemp)),
                       !.grillSetTemps = Evict(Append(@, grillSetTemp)),
                       !.timestamps    = Evict(Append(@, timestamp))]
    IN  IF Len(q.temperatures) >= minDataPoints
        THEN estimateTimeConstant(q)
        ELSE q

\* faulty variant: the anchor follows the oldest sample kept
Update_Reanchor(p, probeTemp, timestamp, probeTargetTemp, grillTemp, grillSetTemp) ==
    LET q == IF ~p.initialized
             THEN FirstUpdate(probeTemp, timestamp, probeTargetTemp, grillTemp, grillSetTemp)
             ELSE LaterUpdate(p, probeTemp, timestamp, probeTargetTemp, grillTemp, grillSetTemp)
    IN  [q EXCEPT !.startTemp = q.temperatures[1], !.startTime = q.timestamps[1]]

\* faulty variant: the first call leaves the time constant as constructed
Update_NoDefaultTau(p, probeTemp, timestamp, probeTargetTemp, grillTemp, grillSetTemp) ==
    IF ~p.initialized
    THEN [FirstUpdate(probeTemp, timestamp, probeTargetTemp, grillTemp, grillSetTemp)
             EXCEPT !.timeConstant = p.timeConstant]
    ELSE LaterUpdate(p, probeTemp, timestamp, probeTargetTemp, grillTemp, grillSetTemp)

\* faulty variant: the first call does not set the initialized flag
Update_NoFlag(p, probeTemp, timestamp, probeTargetTemp, grillTemp, grillSetTemp) ==
    IF ~p.initialized
    THEN [FirstUpdate(probeTemp, timestamp, probeTargetTemp, grillTemp, grillSetTemp)
             EXCEPT !.initialized = FALSE]
    ELSE LaterUpdate(p, probeTemp, timestamp, probeTargetTemp, grillTemp, grillSetTemp)

Update(p, probeTemp, timestamp, probeTargetTemp, grillTemp, grillSetTemp) ==
    IF ~p.initialized
    THEN FirstUpdate(probeTemp, timestamp, probeTargetTemp, grillTemp, grillSetTemp)
    ELSE LaterUpdate(p, probeTemp, timestamp, probeTargetTemp, grillTemp, grillSetTemp)

\* faulty variant: the first sample kept, not the most recent
getCurrentTemperature_First(p) ==
    IF ~p.initialized \/ Len(p.temperatures) = 0 THEN 0
    ELSE p.temperatures[1]

getCurrentTemperature(p) ==
    IF ~p.initialized \/ Len(p.temperatures) = 0 THEN 0
    ELSE p.temperatures[Len(p.temperatures)]

\* faulty variant: a window that has not risen is extrapolated all the same
linearTimeToTarget_AnyTrend(p, targetTemp) ==
    LET n == Len(p.temperatures) IN
    IF n < 2 THEN 0
    ELSE LET recentPoints == IF n < 5 THEN n ELSE 5
             startIdx == n - recentPoints
             timeDiff == p.timestamps[n] - p.timestamps[startIdx + 1]
             tempDiff == Abs(p.temperatures[n] - p.temperatures[startIdx + 1])
             remaining == targetTemp - p.temperatures[n]
         IN  IF timeDiff <= 0 \/ tempDiff = 0 THEN 0
             ELSE IF remaining <= 0 THEN 0
             ELSE MulDiv(remaining, timeDiff, tempDiff) * MsPerSec

\* faulty variant: a window that has not risen is given a rate of one degree
\* per hour instead of no estimate
linearTimeToTarget_FloorRate(p, targetTemp) ==
    LET n == Len(p.temperatures) IN
    IF n < 2 THEN 0
    ELSE LET recentPoints == IF n < 5 THEN n ELSE 5
             startIdx == n - recentPoints
             timeDiff == p.timestamps[n] - p.timestamps[startIdx + 1]
             tempDiff == p.temperatures[n] - p.temperatures[startIdx + 1]
             remaining == targetTemp - p.temperatures[n]
         IN  IF remaining <= 0 THEN 0
             ELSE IF timeDiff <= 0 \/ tempDiff <= 0
             THEN Min(MulDiv(remaining, 3600, TempScale), MaxSeconds) * MsPerSec
             ELSE MulDiv(remaining, timeDiff, tempDiff) * MsPerSec

\* linearTimeToTarget, in milliseconds (the Go result is whole seconds)
linearTimeToTarget(p, targetTemp) ==
    LET n == Len(p.temperatures) IN
    IF n < 2 THEN 0
    ELSE LET recentPoints == IF n < 5 THEN n ELSE 5
             startIdx == n - recentPoints
             timeDiff == p.timestamps[n] - p.timestamps[startIdx + 1]
             tempDiff == p.temperatures[n] - p.temperatures[startIdx + 1]
             remaining == targetTemp - p.temperatures[n]
         IN  IF timeDiff <= 0 \/ tempDiff <= 0 THEN 0
             ELSE IF remaining <= 0 THEN 0
             ELSE MulDiv(remaining, timeDiff, tempDiff) * MsPerSec

\* faulty variant: a ratio of 1 or more is not rejected
DegenerateRatio_NoUpper(numerator, denominator) ==
    \/ numerator = 0
    \/ (numerator < 0) # (denominator < 0)

\* ratio <= 0 || ratio >= 1, for ratio = numerator / denominator and a
\* denominator that is not zero
DegenerateRatio(numerator, denominator) ==
    \/ numerator = 0
    \/ (numerator < 0) # (denominator < 0)      \* ratio <= 0
    \/ Abs(numerator) >= Abs(denominator)       \* ratio >= 1

\* EstimateTimeToTarget: the duration returned (eta, milliseconds) and the
\* return statement that produced it (path)
EstimateTimeToTarget(p, requested) ==
    IF ~p.initialized THEN [eta |-> 0, path |-> "uninitialized"]
    ELSE
    LET currentTemp == getCurrentTemperature(p)
        effectiveEquilibrium ==
            calculateEffectiveEquilibrium(p.grillTemp, p.grillSetTemp, requested)
    IN
    IF currentTemp >= requested THEN [eta |-> 0, path |-> "reached"]
    ELSE IF requested > effectiveEquilibrium /\ currentTemp >= effectiveEquilibrium
    THEN [eta |-> 0, path |-> "at_equilibrium"]
    ELSE
    LET targetTemp  == IF requested > effectiveEquilibrium
                       THEN effectiveEquilibrium ELSE requested
        numerator   == targetTemp - effectiveEquilibrium
        denominator == p.startTemp - effectiveEquilibrium
    IN
    IF Abs(denominator) < TempScale \div 10
    THEN [eta |-> linearTimeToTarget(p, targetTemp), path |-> "linear_denominator"]
    ELSE IF DegenerateRatio(numerator, denominator)
    THEN [eta |-> linearTimeToTarget(p, targetTemp), path |-> "linear_ratio"]
    ELSE
    LET timeToTarget == MulDiv(LnNeg(Abs(numerator), Abs(denominator)),
                               p.timeConstant, ExpScale \div MsPerSec)
        currentTime  == p.timestamps[Len(p.timestamps)]
        elapsed      == (currentTime - p.startTime) * MsPerSec
        remaining    == Max(timeToTarget - elapsed, 0)
    IN  [eta |-> Min(remaining, MaxSeconds * MsPerSec), path |-> "exponential"]

\* PredictTemperature: the curve of the most recent sample
PredictTemperature(p, futureTime) ==
    predictAtTimeWithGrillDynamics(p, futureTime, p.timeConstant,
                                   Len(p.temperatures) - 1)

\* predictAtTime: the curve towards targetTemp itself
predictAtTime(p, t, tau) ==
    IF ~p.initialized THEN 0
    ELSE IF t - p.startTime < 0 THEN p.startTemp
    ELSE Approach(p.targetTemp, p.startTemp, ExpNeg(t - p.startTime, tau))

\* GetCurrentState at wall-clock instant now (time.Since(startTime) is
\* now - startTime, not negative); velocity in micro-degrees per second
GetCurrentState(p, now) ==
    IF ~p.initialized THEN [temperature |-> 0, velocity |-> 0]
    ELSE [ temperature |-> getCurrentTemperature(p),
           velocity |->
               MulDiv((p.targetTemp - p.startTemp) * (RateScale \div TempScale),
                      ExpNeg(now - p.startTime, p.timeConstant), ExpScale)
                   \div p.timeConstant ]

\* the Go indices GetUncertainty's loop does not skip
RecentIndices(p) ==
    { i \in (Len(p.temperatures) - 5)..(Len(p.temperatures) - 1) : i >= 0 }

\* math.Abs(predicted - actual) for the sample at Go index i
RecentError(p, i) ==
    Abs(predictAtTime(p, p.timestamps[i + 1], p.timeConstant) - p.temperatures[i + 1])

\* the sum of recentErrors over the Go indices in idx
RECURSIVE SumRecentErrors(_, _)
SumRecentErrors(p, idx) ==
    IF idx = {} THEN 0
    ELSE LET i == CHOOSE j \in idx : TRUE
         IN  RecentError(p, i) + SumRecentErrors(p, idx \ {i})

\* faulty variant: fewer than five samples give the constant 2.0
GetUncertainty_Default2(p) ==
    IF ~p.initialized \/ Len(p.temperatures) < 3 THEN 5 * TempScale
    ELSE IF Len(p.temperatures) < 5 THEN 2 * TempScale
    ELSE SumRecentErrors(p, RecentIndices(p)) \div Cardinality(RecentIndices(p))

\* GetUncertainty, in milli-degrees
GetUncertainty(p) ==
    IF ~p.initialized \/ Len(p.temperatures) < 3 THEN 5 * TempScale
    ELSE IF RecentIndices(p) = {} THEN 2 * TempScale
    ELSE SumRecentErrors(p, RecentIndices(p)) \div Cardinality(RecentIndices(p))

IsInitialized(p) == p.initialized

GetTimeConstant(p) == p.timeConstant

----------------------------------------------------------------------------
(* The legacy linear estimator of the status loop (calculateProbeETA) *)

MaxETASeconds == 86400    \* cap of the legacy ETA: 24 * 3600

FallingRate == RateScale \div 3600          \* 1.0 / 3600.0
StableRate  == (RateScale \div 2) \div 3600 \* 0.5 / 3600.0

\* faulty variant: a falling trend is given the rate of a stable one
TrendRate_FallingAsStable(tempChange, timeChange) ==
    IF tempChange > 0 THEN (tempChange * RateScale) \div timeChange
    ELSE StableRate

\* the rate given to a temperature change over a positive time
TrendRate(tempChange, timeChange) ==
    IF tempChange > 0 THEN (tempChange * RateScale) \div timeChange
    ELSE IF tempChange < 0 THEN FallingRate
    ELSE StableRate

\* Factor 1, in percent
grillTempAdjustment(current) ==
    IF current.Grill < current.GrillSet THEN 115
    ELSE IF current.Grill > current.GrillSet THEN 95
    ELSE 100

\* Factor 2, in percent: the switch takes the first case that matches
differentialAdjustment(current) ==
    LET tempDifferential == current.Grill - current.Probe
    IN  IF tempDifferential > 50 THEN 110
        ELSE IF tempDifferential < 20 THEN 80
        ELSE IF tempDifferential < 10 THEN 60
        ELSE 100

\* Factor 3, in percent: cookingProgress = Probe / ProbeSet against 0.3 and 0.8
stageAdjustment(current) ==
    IF 10 * current.Probe < 3 * current.ProbeSet THEN 105
    ELSE IF 10 * current.Probe > 8 * current.ProbeSet THEN 85
    ELSE 100

\* Factor 4, in percent: rateRatio = recentRate / baseRate against 1.5 and 0.5
stabilityAdjustment(recentRate, baseRate) ==
    IF recentRate > 0 /\ baseRate > 0
       /\ (2 * recentRate > 3 * baseRate \/ 2 * recentRate < baseRate)
    THEN 90 ELSE 100

\* faulty variant: the 24-hour cap is missing
ClampETA_NoCap(tempRemaining, adjustedRate) ==
    IF tempRemaining < 0 THEN 0
    ELSE MulDiv(RateScale, tempRemaining, adjustedRate) * MsPerSec

\* the closing checks on etaSeconds = tempRemaining / adjustedRate, for a
\* positive adjustedRate; the result in milliseconds
ClampETA(tempRemaining, adjustedRate) ==
    IF tempRemaining < 0 THEN 0
    ELSE IF MulDiv(RateScale, tempRemaining, adjustedRate) > MaxETASeconds
    THEN MaxETASeconds * MsPerSec
    ELSE MulDiv(RateScale, tempRemaining, adjustedRate) * MsPerSec

\* baseRate, from the first history entry to the current status
BaseRate(h, current) ==
    TrendRate(current.Probe - h[1].Probe, current.Time - h[1].Time)

\* recentRate, from the last history entry but one to the current status;
\* 0 when there is none or no time has passed
RecentRate(h, current) ==
    IF Len(h) >= 2 /\ current.Time - h[Len(h) - 1].Time > 0
    THEN TrendRate(current.Probe - h[Len(h) - 1].Probe,
                   current.Time - h[Len(h) - 1].Time)
    ELSE 0

\* rate: recentRate * 0.7 + baseRate * 0.3 when recentRate > 0
WeightedRate(recentRate, baseRate) ==
    IF recentRate > 0 THEN (recentRate * 7 + baseRate * 3) \div 10 ELSE baseRate

\* rate * grillTempAdjustment * differentialAdjustment * stageAdjustment *
\* stabilityAdjustment, for a current status later than history[0]
AdjustedRate(h, current) ==
    MulDiv(MulDiv(MulDiv(MulDiv(
        WeightedRate(RecentRate(h, current), BaseRate(h, current)),
        grillTempAdjustment(current), 100),
        differentialAdjustment(current), 100),
        stageAdjustment(current), 100),
        stabilityAdjustment(RecentRate(h, current), BaseRate(h, current)), 100)

\* calculateProbeETA(history, current), in milliseconds
calculateProbeETA(h, current) ==
    IF Len(h) < 1 THEN 0
    ELSE IF ~(current.Time > h[1].Time) THEN 0
    ELSE ClampETA(current.ProbeSet - current.Probe, AdjustedRate(h, current))

----------------------------------------------------------------------------
(* The telemetry source: what the grill reports, one status per step *)

StartProbes  == {100, 187}   \* probe reading of the first status (degrees)
Deltas       == {-2, 1, 5}   \* probe change from one status to the next
Grills       == {180, 250}   \* chamber temperature
Steps        == {600}        \* seconds between two statuses
ProbeSets    == {200}        \* probe target of the session
GrillSets    == {250}        \* chamber set-point of the session
StartTimes   == {1000}       \* time of the first status (seconds)
QueryTargets == {97, 105}    \* targets asked of EstimateTimeToTarget directly

\* a trend: how the next status differs from the previous one
Trends == [delta : Deltas, grill : Grills, dt : Steps]

\* the zero Status{} with the fields the loop reads
ZeroStatus ==
    [ Error |-> FALSE, Connected |-> FALSE, Grill |-> 0, GrillSet |-> 0,
      Probe |-> 0, ProbeSet |-> 0, Time |-> 0, ProbeETA |-> 0 ]

\* faulty variant: a payload that does not decode yields a connected Status
newUpdate_ErrorConnected(decodes, connected, grill, grillSet, probe, probeSet, time) ==
    IF ~decodes THEN [ZeroStatus EXCEPT !.Error = TRUE, !.Connected = TRUE]
    ELSE [ZeroStatus EXCEPT !.Connected = connected, !.Grill = grill,
                            !.GrillSet = grillSet, !.Probe = probe,
                            !.ProbeSet = probeSet, !.Time = time]

\* newUpdate: the Status decoded from a payload, or Status{Error: err}
newUpdate(decodes, connected, grill, grillSet, probe, probeSet, time) ==
    IF ~decodes THEN [ZeroStatus EXCEPT !.Error = TRUE]
    ELSE [ZeroStatus EXCEPT !.Connected = connected, !.Grill = grill,
                            !.GrillSet = grillSet, !.Probe = probe,
                            !.ProbeSet = probeSet, !.Time = time]

\* the reading the source delivers next when it follows trend tr; the payload
\* may fail to decode, the grill may report itself disconnected, and the probe
\* may be unplugged (probe and probe target 0)
Reading(tr, decodes, connected, hasProbe) ==
    LET first == env.n = 0
        time  == IF first THEN env.time ELSE env.time + tr.dt
        probe == IF first THEN env.probe ELSE env.probe + tr.delta
    IN  [ trend |-> tr,
          turn  |-> (tr # env.trend) \/ ~decodes \/ ~connected \/ ~hasProbe,
          probe |-> probe,
          time  |-> time,
          msg   |-> newUpdate(decodes, connected, tr.grill, env.grillSet,
                              IF hasProbe THEN probe ELSE 0,
                              IF hasProbe THEN env.probeSet ELSE 0,
                              time) ]

\* the statuses the source may deliver next: the current trend continued, or
\* a turn: another trend, an unplugged probe, a disconnected grill, or a
\* payload that does not decode
NextStatuses ==
    { Reading(tr, TRUE, TRUE, TRUE) : tr \in Trends }
      \cup { Reading(env.trend, TRUE, TRUE, FALSE),
             Reading(env.trend, TRUE, FALSE, TRUE),
             Reading(env.trend, FALSE, FALSE, FALSE) }

----------------------------------------------------------------------------
(* wifire.Client: login, mqttConnect, MQTTConnect (wifire.go)               *)
(* A token is the number of the login that issued it; 0 is the empty string *)
(* of idToken and refreshToken, and the nil pointer of a response field.    *)

MaxLogins == 3     \* responses the identity service gives in one run

\* the zero connection of a Client
NoConnection ==
    [ idToken |-> 0, idTokenExpires |-> 0, refreshToken |-> 0, mqttClient |-> "nil" ]

\* the Client before NewClient has run
NoClient == [ conn |-> NoConnection, isMQTTConnected |-> FALSE ]

\* no login made yet
NoLogin ==
    [ flow |-> "none", held |-> 0, refreshHeld |-> 0, err |-> "nil",
      idToken |-> 0, refreshToken |-> 0, previous |-> "none" ]

NoNet ==
    [ link |-> "none", issued |-> 0, pc |-> "new", op |-> "none",
      wasConnected |-> FALSE, calls |-> <<>>, err |-> "nil",
      first |-> "none", second |-> "none", auth |-> NoLogin ]

\* what InitiateAuth may answer to the login numbered n: an error, or a result
\* whose IdToken and RefreshToken are present or nil and whose IdToken
\* tokenInfo can or cannot parse
AuthResponses(n) ==
    { [ fails |-> TRUE, idToken |-> 0, refreshToken |-> 0, parses |-> FALSE ] }
      \cup [ fails : {FALSE}, idToken : {0, n}, refreshToken : {0, n}, parses : BOOLEAN ]

\* faulty variant: a failed InitiateAuth leaves the ID token in place
login_KeepToken(c, resp) ==
    IF resp.fails THEN [ conn |-> c, err |-> "initiate_auth" ]
    ELSE IF resp.idToken = 0 THEN [ conn |-> c, err |-> "no_id_token" ]
    ELSE IF ~resp.parses
    THEN [ conn |-> [c EXCEPT !.idToken = resp.idToken,
                              !.refreshToken = IF resp.refreshToken = 0 THEN @
                                               ELSE resp.refreshToken],
           err |-> "token_info" ]
    ELSE [ conn |-> [c EXCEPT !.idToken = resp.idToken,
                              !.refreshToken = IF resp.refreshToken = 0 THEN @
                                               ELSE resp.refreshToken,
                              !.idTokenExpires = resp.idToken],
           err |-> "nil" ]

\* the authentication flow login chooses on connection c
AuthFlow(c) == IF c.idToken = 0 THEN "basic" ELSE "refresh"

\* login on connection c when InitiateAuth answers resp: the connection
\* afterwards and the error returned
login(c, resp) ==
    IF resp.fails THEN [ conn |-> [c EXCEPT !.idToken = 0], err |-> "initiate_auth" ]
    ELSE IF resp.idToken = 0 THEN [ conn |-> c, err |-> "no_id_token" ]
    ELSE IF ~resp.parses
    THEN [ conn |-> [c EXCEPT !.idToken = resp.idToken,
                              !.refreshToken = IF resp.refreshToken = 0 THEN @
                                               ELSE resp.refreshToken],
           err |-> "token_info" ]
    ELSE [ conn |-> [c EXCEPT !.idToken = resp.idToken,
                              !.refreshToken = IF resp.refreshToken = 0 THEN @
                                               ELSE resp.refreshToken,
                              !.idTokenExpires = resp.idToken],
           err |-> "nil" ]

\* how an mqttConnect may end: before the MQTT client is created (the request
\* fails, the status is not 200, the body does not decode), at Connect, or well
ConnectOutcomes == {"http_error", "connect_error", "ok"}

\* mqttConnect on connection c
mqttConnect(c, outcome) ==
    IF outcome = "http_error" THEN [ conn |-> c, err |-> "http" ]
    ELSE IF outcome = "connect_error"
    THEN [ conn |-> [c EXCEPT !.mqttClient = "created"], err |-> "connect" ]
    ELSE [ conn |-> [c EXCEPT !.mqttClient = "created"], err |-> "nil" ]

\* faulty variant: the connected flag is not consulted
MQTTConnect_NoFlag(cl, first, resp, second) ==
    LET a == mqttConnect(cl.conn, first) IN
    IF a.err = "nil" THEN [ conn |-> a.conn, calls |-> <<"mqttConnect">>, err |-> "nil" ]
    ELSE LET l == login(a.conn, resp) IN
         IF l.err # "nil"
         THEN [ conn |-> l.conn, calls |-> <<"mqttConnect", "login">>, err |-> l.err ]
         ELSE [ conn |-> mqttConnect(l.conn, second).conn,
                calls |-> <<"mqttConnect", "login", "mqttConnect">>,
                err |-> mqttConnect(l.conn, second).err ]

\* MQTTConnect on client cl, for the outcomes the network calls would have:
\* the connection afterwards, the network calls made and the error returned
MQTTConnect(cl, first, resp, second) ==
    IF cl.isMQTTConnected THEN [ conn |-> cl.conn, calls |-> <<>>, err |-> "nil" ]
    ELSE
    LET a == mqttConnect(cl.conn, first) IN
    IF a.err = "nil" THEN [ conn |-> a.conn, calls |-> <<"mqttConnect">>, err |-> "nil" ]
    ELSE LET l == login(a.conn, resp) IN
         IF l.err # "nil"
         THEN [ conn |-> l.conn, calls |-> <<"mqttConnect", "login">>, err |-> l.err ]
         ELSE [ conn |-> mqttConnect(l.conn, second).conn,
                calls |-> <<"mqttConnect", "login", "mqttConnect">>,
                err |-> mqttConnect(l.conn, second).err ]

----------------------------------------------------------------------------
(* The status loop *)

HistoryCap == 5     \* len(history) > 5 drops the oldest entry
DayMs == 86400000   \* 24 * time.Hour in milliseconds

NoEstimate == [eta |-> 0, path |-> "none"]

\* no direct call in progress
NoCall ==
    [ op |-> "none", target |-> 0, time |-> 0, est |-> NoEstimate,
      value |-> 0, velocity |-> 0, flag |-> FALSE ]

\* no evaluation of calculateEffectiveEquilibrium on its own
NoEqCall ==
    [ probeTarget |-> 0, grillSetTemp |-> 0, grillTemp |-> 0, otherGrillTemp |-> 0,
      done |-> FALSE, value |-> 0, otherValue |-> 0 ]

\* the record of an operation that did nothing
Idle(op, msg) ==
    [ op |-> op, msg |-> msg, target |-> 0,
      updated |-> FALSE, refit |-> FALSE, blended |-> FALSE,
      est |-> NoEstimate, legacyETA |-> 0, bestETA |-> 0,
      etaSource |-> "", written |-> FALSE ]

Init ==
    /\ ep = NewExponentialPredictor
    /\ history = <<>>
    /\ supplied = <<>>
    /\ asked = NoCall
    /\ answered = NoCall
    /\ eqCall = NoEqCall
    /\ client = NoClient
    /\ net = NoNet
    /\ \E p \in StartProbes, tr \in Trends, t \in StartTimes,
          ps \in ProbeSets, gs \in GrillSets :
          env = [ probe |-> p, trend |-> tr, time |-> t, turns |-> 0, n |-> 0,
                  probeSet |-> ps, grillSet |-> gs ]
    /\ last = Idle("new", ZeroStatus)

\* faulty variant: the two estimates are averaged
Blend_Average(p, h, msg) ==
    LET est == IF p.initialized
               THEN EstimateTimeToTarget(p, Deg(msg.ProbeSet)) ELSE NoEstimate
        useExp == est.eta > 0 /\ est.eta < DayMs
        legacy == calculateProbeETA(h, msg)
    IN  [ est |-> est,
          legacyETA |-> legacy,
          bestETA |-> IF useExp THEN (est.eta + legacy) \div 2 ELSE legacy,
          etaSource |-> IF useExp THEN "exponential" ELSE "legacy" ]

\* the blending of one processed status: the exponential ETA, the legacy ETA,
\* the ETA published and its source
Blend(p, h, msg) ==
    LET est == IF p.initialized
               THEN EstimateTimeToTarget(p, Deg(msg.ProbeSet)) ELSE NoEstimate
        useExp == est.eta > 0 /\ est.eta < DayMs
        legacy == calculateProbeETA(h, msg)
    IN  [ est |-> est,
          legacyETA |-> legacy,
          bestETA |-> IF useExp THEN est.eta ELSE legacy,
          etaSource |-> IF useExp THEN "exponential" ELSE "legacy" ]

\* the observation an Update call is given
Observation(msg) ==
    [ probeTemp |-> Deg(msg.Probe), grillTemp |-> Deg(msg.Grill),
      grillSetTemp |-> Deg(msg.GrillSet), timestamp |-> msg.Time ]

\* one iteration of the loop over the subscription channel, for the status msg
Process(msg) ==
    IF ~msg.Connected
    THEN /\ UNCHANGED <<ep, history, supplied>>
         /\ last' = Idle("dropped", msg)
    ELSE
    LET feeds  == msg.Probe > 0 /\ msg.ProbeSet > 0
        blends == msg.ProbeSet > 0 /\ msg.Probe < msg.ProbeSet
    IN
    \E p \in { IF feeds
               THEN Update(ep, Deg(msg.Probe), msg.Time, Deg(msg.ProbeSet),
                           Deg(msg.Grill), Deg(msg.GrillSet))
               ELSE ep } :
    \E h \in { IF Len(history) + 1 > HistoryCap
               THEN Tail(Append(history, msg)) ELSE Append(history, msg) } :
    \E b \in { Blend(p, h, msg) } :
        /\ ep' = p
        /\ history' = h
        /\ supplied' = IF feeds THEN Append(supplied, Observation(msg)) ELSE supplied
        /\ last' = [ op |-> "status",
                     msg |-> IF blends /\ b.bestETA > 0
                             THEN [msg EXCEPT !.ProbeETA = b.bestETA] ELSE msg,
                     target |-> Deg(msg.ProbeSet),
                     updated |-> feeds,
                     refit |-> feeds /\ Refits(ep),
                     blended |-> blends,
                     est |-> IF blends THEN b.est ELSE NoEstimate,
                     legacyETA |-> IF blends THEN b.legacyETA ELSE 0,
                     bestETA |-> IF blends THEN b.bestETA ELSE 0,
                     etaSource |-> IF blends THEN b.etaSource ELSE "",
                     written |-> TRUE ]

\* the source delivers a status and the loop processes it
Deliver(r) ==
    /\ env' = [env EXCEPT !.probe = r.probe, !.trend = r.trend, !.time = r.time,
                          !.n = @ + 1,
                          !.turns = IF r.turn THEN @ + 1 ELSE @]
    /\ Process(r.msg)
    /\ answered' = NoCall
    /\ UNCHANGED <<asked, eqCall, client, net>>

status ==
    /\ asked = NoCall
    /\ env.n < MaxStatuses
    /\ \E r \in NextStatuses :
        /\ r.turn => env.turns < MaxTurns
        /\ Deliver(r)

\* a steady session: every status follows the trend of the first
statusSteady ==
    /\ asked = NoCall
    /\ env.n < MaxLongStatuses
    /\ Deliver(Reading(env.trend, TRUE, TRUE, TRUE))

\* a caller outside the loop calls EstimateTimeToTarget; the predictor is
\* not safe for concurrent use, so the loop waits until the call returns
EstimateTimeToTargetCall ==
    /\ asked = NoCall
    /\ \E t \in QueryTargets :
        asked' = [NoCall EXCEPT !.op = "EstimateTimeToTarget", !.target = Deg(t),
                                !.est = EstimateTimeToTarget(ep, Deg(t))]
    /\ UNCHANGED <<ep, history, supplied, env, last, answered, eqCall, client, net>>

\* the caller has the result
EstimateTimeToTargetReturn ==
    /\ asked.op = "EstimateTimeToTarget"
    /\ asked' = NoCall
    /\ UNCHANGED <<ep, history, supplied, env, last, answered, eqCall, client, net>>

\* the instants asked of PredictTemperature: before the session started, the
\* latest status, and an hour ahead
PredictTimes == {ep.startTime - 60, env.time, env.time + 3600}

\* the wall-clock instants at which GetCurrentState is called
Clocks == {env.time, env.time + 300}

PredictTemperatureCall ==
    /\ asked = NoCall
    /\ \E t \in PredictTimes :
        asked' = [NoCall EXCEPT !.op = "PredictTemperature", !.time = t,
                                !.value = PredictTemperature(ep, t)]
    /\ UNCHANGED <<ep, history, supplied, env, last, answered, eqCall, client, net>>

GetCurrentStateCall ==
    /\ asked = NoCall
    /\ \E now \in Clocks :
        asked' = [NoCall EXCEPT !.op = "GetCurrentState", !.time = now,
                                !.value = GetCurrentState(ep, now).temperature,
                                !.velocity = GetCurrentState(ep, now).velocity]
    /\ UNCHANGED <<ep, history, supplied, env, last, answered, eqCall, client, net>>

\* faulty variant: the query trims the samples to the five it reads
GetUncertaintyCall_Trim ==
    /\ asked = NoCall
    /\ asked' = [NoCall EXCEPT !.op = "GetUncertainty", !.value = GetUncertainty(ep)]
    /\ ep' = [ep EXCEPT !.temperatures =
                  SubSeq(@, Max(1, Len(@) - 4), Len(@))]
    /\ UNCHANGED <<history, supplied, env, last, answered, eqCall, client, net>>

GetUncertaintyCall ==
    /\ asked = NoCall
    /\ asked' = [NoCall EXCEPT !.op = "GetUncertainty", !.value = GetUncertainty(ep)]
    /\ UNCHANGED <<ep, history, supplied, env, last, answered, eqCall, client, net>>

GetTimeConstantCall ==
    /\ asked = NoCall
    /\ asked' = [NoCall EXCEPT !.op = "GetTimeConstant", !.value = GetTimeConstant(ep)]
    /\ UNCHANGED <<ep, history, supplied, env, last, answered, eqCall, client, net>>

IsInitializedCall ==
    /\ asked = NoCall
    /\ asked' = [NoCall EXCEPT !.op = "IsInitialized", !.flag = IsInitialized(ep)]
    /\ UNCHANGED <<ep, history, supplied, env, last, answered, eqCall, client, net>>

\* the caller of one of the five queries above has the result
QueryReturn ==
    /\ asked.op \in {"PredictTemperature", "GetCurrentState", "GetUncertainty",
                     "GetTimeConstant", "IsInitialized"}
    /\ answered' = IF asked.op = "PredictTemperature" THEN asked ELSE answered
    /\ asked' = NoCall
    /\ UNCHANGED <<ep, history, supplied, env, last, eqCall, client, net>>

Next == status \/ EstimateTimeToTargetCall \/ EstimateTimeToTargetReturn

Spec == Init /\ [][Next]_vars

NextLong ==
    \/ statusSteady
    \/ EstimateTimeToTargetCall
    \/ EstimateTimeToTargetReturn
    \/ PredictTemperatureCall
    \/ GetCurrentStateCall
    \/ GetUncertaintyCall
    \/ GetTimeConstantCall
    \/ IsInitializedCall
    \/ QueryReturn

SpecLong == Init /\ [][NextLong]_vars

----------------------------------------------------------------------------
(* A session started with an output file: newRootCmd loads the history from *)
(* the file and status replays it into the predictor before the loop runs   *)

MaxEntries    == 20      \* loadHistoricalData(output, 20)
RecentSeconds == 7200    \* entries of the last 2 hours are kept
FileStep      == 30      \* seconds between two lines of the file
LoadedLines   == {0, 6, 22}    \* lines in the output file

\* line i of n: the status an earlier session wrote, the probe one degree
\* lower per line back; in a spoiled file line 1 is not JSON, line 2 was
\* written with the probe unplugged and line 3 is older than two hours
FileLine(e, tr, n, i, spoiled) ==
    LET back == n - i + 1
        st == newUpdate(TRUE, TRUE, tr.grill, e.grillSet,
                        IF spoiled /\ i = 2 THEN 0 ELSE e.probe - back,
                        IF spoiled /\ i = 2 THEN 0 ELSE e.probeSet,
                        IF spoiled /\ i = 3
                        THEN e.time - RecentSeconds - FileStep * back
                        ELSE e.time - FileStep * back)
    IN  [ parses |-> ~(spoiled /\ i = 1), status |-> st ]

OutputFile(e, tr, n, spoiled) == [ i \in 1..n |-> FileLine(e, tr, n, i, spoiled) ]

\* loadHistoricalData at instant now: of the last maxEntries lines, those that
\* parse, are later than now - 2h and have a positive probe
loadHistoricalData(lines, maxEntries, now) ==
    LET startIdx == IF Len(lines) > maxEntries THEN Len(lines) - maxEntries ELSE 0
        Kept(l) == l.parses /\ l.status.Time > now - RecentSeconds /\ l.status.Probe > 0
        kept == SelectSeq(SubSeq(lines, startIdx + 1, Len(lines)), Kept)
    IN  [ i \in 1..Len(kept) |-> kept[i].status ]

\* the loop of status over the loaded history: Update for each valid entry
RECURSIVE Replay(_, _, _)
Replay(p, h, i) ==
    IF i > Len(h) THEN p
    ELSE Replay(IF h[i].Probe > 0 /\ h[i].ProbeSet > 0
                THEN Update(p, Deg(h[i].Probe), h[i].Time, Deg(h[i].ProbeSet),
                            Deg(h[i].Grill), Deg(h[i].GrillSet))
                ELSE p,
                h, i + 1)

\* the observations the replay handed to Update
Replayed(h) ==
    LET Valid(st) == st.Probe > 0 /\ st.ProbeSet > 0
        valid == SelectSeq(h, Valid)
    IN  [ i \in 1..Len(valid) |-> Observation(valid[i]) ]

InitLoaded ==
    /\ asked = NoCall
    /\ answered = NoCall
    /\ eqCall = NoEqCall
    /\ client = NoClient
    /\ net = NoNet
    /\ last = Idle("new", ZeroStatus)
    /\ \E p \in StartProbes, tr \in {x \in Trends : x.delta = 1}, t \in StartTimes,
          ps \in ProbeSets, gs \in GrillSets, n \in LoadedLines, spoiled \in BOOLEAN :
          /\ spoiled => n >= 3
          /\ env = [ probe |-> p, trend |-> tr, time |-> t, turns |-> 0, n |-> 0,
                     probeSet |-> ps, grillSet |-> gs ]
          /\ \E h \in { loadHistoricalData(OutputFile(env, tr, n, spoiled),
                                            MaxEntries, t) } :
                /\ history = h
                /\ ep = Replay(NewExponentialPredictor, h, 1)
                /\ supplied = Replayed(h)

SpecLoaded == InitLoaded /\ [][Next]_vars

----------------------------------------------------------------------------
(* calculateEffectiveEquilibrium on its own: the arguments are drawn at the *)
(* start, two grill temperatures at a time, and the function is applied     *)

EqTargets == {150, 200}      \* probeTarget, degrees
EqSets    == {160, 240}      \* grillSetTemp, degrees
\* grillTemp - probeTarget, degrees: both sides of every band edge
EqOffsets ==
    {-80, -67, -66, -60, -40, -20, -1, 0, 1, 10, 20, 21, 35, 50, 51, 61, 100, 120}

InitEq ==
    /\ ep = NewExponentialPredictor
    /\ history = <<>>
    /\ supplied = <<>>
    /\ asked = NoCall
    /\ answered = NoCall
    /\ client = NoClient
    /\ net = NoNet
    /\ env = [ probe |-> 0, trend |-> [delta |-> 0, grill |-> 0, dt |-> 0],
               time |-> 0, turns |-> 0, n |-> 0, probeSet |-> 0, grillSet |-> 0 ]
    /\ last = Idle("new", ZeroStatus)
    /\ \E target \in EqTargets, set \in EqSets, d \in EqOffsets, e \in EqOffsets :
          eqCall = [NoEqCall EXCEPT !.probeTarget = Deg(target),
                                    !.grillSetTemp = Deg(set),
                                    !.grillTemp = Deg(target + d),
                                    !.otherGrillTemp = Deg(target + e)]

calculateEffectiveEquilibriumCall ==
    /\ ~eqCall.done
    /\ eqCall' =
          [eqCall EXCEPT
              !.done = TRUE,
              !.value = calculateEffectiveEquilibrium(
                            eqCall.grillTemp, eqCall.grillSetTemp, eqCall.probeTarget),
              !.otherValue = calculateEffectiveEquilibrium(
                            eqCall.otherGrillTemp, eqCall.grillSetTemp, eqCall.probeTarget)]
    /\ UNCHANGED <<ep, history, supplied, env, last, asked, answered, client, net>>

NextEq == calculateEffectiveEquilibriumCall

SpecEq == InitEq /\ [][NextEq]_vars

----------------------------------------------------------------------------
(* The connection side of monitor.Run: the loop connects and subscribes when *)
(* the connected flag is down, then waits for the ticker, a status or the    *)
(* cancellation of its context; the MQTT library's callbacks set the flag    *)

\* the ghost of a login on connection c answered by resp, coming after a
\* login that returned previous
LoginGhost(c, resp, previous) ==
    [ flow |-> AuthFlow(c), held |-> c.idToken, refreshHeld |-> c.refreshToken,
      err |-> login(c, resp).err, idToken |-> resp.idToken,
      refreshToken |-> resp.refreshToken, previous |-> previous ]

\* NewClient has logged in with success and monitor.Run is at the top of its loop
InitClient ==
    /\ ep = NewExponentialPredictor
    /\ history = <<>>
    /\ supplied = <<>>
    /\ asked = NoCall
    /\ answered = NoCall
    /\ eqCall = NoEqCall
    /\ env = [ probe |-> 0, trend |-> [delta |-> 0, grill |-> 0, dt |-> 0],
               time |-> 0, turns |-> 0, n |-> 0, probeSet |-> 0, grillSet |-> 0 ]
    /\ last = Idle("new", ZeroStatus)
    /\ \E resp \in AuthResponses(1) :
          /\ login(NoConnection, resp).err = "nil"
          /\ client = [NoClient EXCEPT !.conn = login(NoConnection, resp).conn]
          /\ net = [NoNet EXCEPT !.issued = 1, !.pc = "loop",
                                 !.auth = LoginGhost(NoConnection, resp, "none")]

\* if !m.Grill.MQTTIsConnected()
RunCheck ==
    /\ net.pc = "loop"
    /\ net' = [net EXCEPT !.pc = IF client.isMQTTConnected THEN "select" ELSE "connect"]
    /\ UNCHANGED <<ep, history, supplied, env, last, asked, answered, eqCall, client>>

\* m.Grill.MQTTConnect()
RunConnect ==
    /\ net.pc = "connect"
    /\ \E first \in ConnectOutcomes, second \in ConnectOutcomes,
          resp \in AuthResponses(net.issued + 1) :
        \E r \in { MQTTConnect(client, first, resp, second) } :
          /\ Len(r.calls) >= 2 => net.issued < MaxLogins
          /\ client' = [client EXCEPT !.conn = r.conn]
          /\ net' = [net EXCEPT
                !.pc = IF r.err = "nil" THEN "subscribe" ELSE "select",
                !.op = "MQTTConnect",
                !.wasConnected = client.isMQTTConnected,
                !.calls = r.calls,
                !.err = r.err,
                !.first = IF Len(r.calls) >= 1 THEN first ELSE "none",
                !.second = IF Len(r.calls) = 3 THEN second ELSE "none",
                !.issued = IF Len(r.calls) >= 2 THEN @ + 1 ELSE @,
                !.auth = IF Len(r.calls) >= 2
                         THEN LoginGhost(mqttConnect(client.conn, first).conn, resp, @.err)
                         ELSE @,
                !.link = IF r.err = "nil" /\ Len(r.calls) >= 1 THEN "up" ELSE @]
    /\ UNCHANGED <<ep, history, supplied, env, last, asked, answered, eqCall>>

\* MQTTSubscribeStatus waits for the token and returns nil
MQTTSubscribeStatus == "nil"

\* m.Grill.MQTTSubscribeStatus(grillName, subscription), and MQTTDisconnect
\* when it fails
RunSubscribe ==
    /\ net.pc = "subscribe"
    /\ net' = [net EXCEPT !.pc = IF MQTTSubscribeStatus # "nil" THEN "disconnect"
                                 ELSE "select",
                          !.op = "MQTTSubscribeStatus"]
    /\ UNCHANGED <<ep, history, supplied, env, last, asked, answered, eqCall, client>>

\* the select takes the ticker or a status, and the loop goes round
RunTick ==
    /\ net.pc = "select"
    /\ net' = [net EXCEPT !.pc = "loop", !.op = "tick"]
    /\ UNCHANGED <<ep, history, supplied, env, last, asked, answered, eqCall, client>>

\* the select takes ctx.Done(): Run returns ctx.Err() and its deferred
\* function calls MQTTDisconnect, m.Grill not being nil
RunCancel ==
    /\ net.pc = "select"
    /\ net' = [net EXCEPT !.pc = "cleanup", !.op = "cancel"]
    /\ UNCHANGED <<ep, history, supplied, env, last, asked, answered, eqCall, client>>

\* c.conn.mqttClient.Disconnect(0): a method call on a nil interface value
\* when no MQTT client was created
MQTTDisconnect ==
    /\ net.pc \in {"cleanup", "disconnect"}
    /\ net' = [net EXCEPT !.pc = IF client.conn.mqttClient = "nil" THEN "fault"
                                 ELSE IF net.pc = "cleanup" THEN "returned"
                                 ELSE "select",
                          !.op = "MQTTDisconnect",
                          !.link = IF @ = "up" THEN "down" ELSE @]
    /\ UNCHANGED <<ep, history, supplied, env, last, asked, answered, eqCall, client>>

\* OnConnect, called by the MQTT library once the connection stands
mqttConnectCallback ==
    /\ net.link = "up"
    /\ ~client.isMQTTConnected
    /\ client' = [client EXCEPT !.isMQTTConnected = TRUE]
    /\ UNCHANGED <<ep, history, supplied, env, last, asked, answered, eqCall, net>>

\* OnConnectionLost, called by the MQTT library when the connection drops
mqttConnectionLostCallback ==
    /\ net.link = "up"
    /\ client.isMQTTConnected
    /\ client' = [client EXCEPT !.isMQTTConnected = FALSE]
    /\ net' = [net EXCEPT !.link = "down"]
    /\ UNCHANGED <<ep, history, supplied, env, last, asked, answered, eqCall>>

NextClient ==
    \/ RunCheck
    \/ RunConnect
    \/ RunSubscribe
    \/ RunTick
    \/ RunCancel
    \/ MQTTDisconnect
    \/ mqttConnectCallback
    \/ mqttConnectionLostCallback

SpecClient == InitClient /\ [][NextClient]_vars

----------------------------------------------------------------------------
(* Properties *)

\* the probe temperature most recently handed to Update
LatestProbe == supplied[Len(supplied)].probeTemp

\* the results of EstimateTimeToTarget the state shows, each computed on ep as
\* it is in that state: the direct call in progress and the call the loop made
\* for the status it processed last
Answers ==
    (IF asked.op = "EstimateTimeToTarget"
     THEN {[target |-> asked.target, est |-> asked.est]} ELSE {})
      \cup (IF last.est.path # "none"
            THEN {[target |-> last.target, est |-> last.est]} ELSE {})

\* the effective equilibrium EstimateTimeToTarget(target) computes in this state
EqFor(target) == calculateEffectiveEquilibrium(ep.grillTemp, ep.grillSetTemp, target)

\* C1. Anchoring: once Update has been called, startTemp and startTime are the
\* probe temperature and the timestamp of the first call, whatever later calls
\* did (appending, evicting, refitting the time constant).
C1_Anchoring ==
    supplied # <<>> =>
        /\ ep.startTemp = supplied[1].probeTemp
        /\ ep.startTime = supplied[1].timestamp

\* C1: the first sample has been evicted and the time constant refitted
C1_Witness ==
    /\ Len(supplied) > 20
    /\ ep.timeConstant # 3600
    /\ ep.timestamps[1] # supplied[1].timestamp

\* C2. Bounded history: the four slices hold the same number of samples, at
\* most 20; they are the most recent observations supplied, in arrival order;
\* after more than 20 Update calls they hold exactly 20.
C2_BoundedHistory ==
    LET n == Len(ep.temperatures)
        m == Len(supplied)
    IN  /\ n <= 20
        /\ n = (IF m > 20 THEN 20 ELSE m)
        /\ Len(ep.grillTemps) = n
        /\ Len(ep.grillSetTemps) = n
        /\ Len(ep.timestamps) = n
        /\ \A i \in 1 .. n :
              /\ ep.temperatures[i] = supplied[m - n + i].probeTemp
              /\ ep.grillTemps[i] = supplied[m - n + i].grillTemp
              /\ ep.grillSetTemps[i] = supplied[m - n + i].grillSetTemp
              /\ ep.timestamps[i] = supplied[m - n + i].timestamp

\* C2: two samples have been evicted
C2_Witness == Len(supplied) = 22 /\ Len(ep.temperatures) = 20

\* C3 as stated: timeConstant is strictly positive in every reachable state,
\* the state right after construction included, and is 3600 before any Update.
C3_Original ==
    /\ ep.timeConstant > 0
    /\ supplied = <<>> => ep.timeConstant = 3600

\* C3, amended. timeConstant is 0 from construction until the first Update and
\* strictly positive in every initialized state; the first Update sets it to
\* 3600, and after that only an Update that re-estimates changes it.
C3_TimeConstant ==
    /\ [](IF ep.initialized THEN ep.timeConstant > 0 ELSE ep.timeConstant = 0)
    /\ [][ ep'.timeConstant # ep.timeConstant =>
             \/ ~ep.initialized /\ ep'.timeConstant = 3600
             \/ ep.initialized /\ last'.refit /\ supplied' # supplied ]_vars

\* C3: a re-estimation has accepted another time constant
C3_Witness == ep.initialized /\ last.refit /\ ep.timeConstant # 3600

\* C4. Lifecycle: the predictor starts uninitialized; no step takes it from
\* initialized back to uninitialized; it becomes initialized only in a step
\* that calls Update, and every step that calls Update leaves it initialized.
C4_Lifecycle ==
    /\ ~ep.initialized
    /\ [][ /\ ep.initialized => ep'.initialized
           /\ ep'.initialized # ep.initialized => supplied' # supplied
           /\ supplied' # supplied => ep'.initialized ]_vars

\* C4: initialized, after a later Update and with a query in progress
C4_Witness == ep.initialized /\ Len(supplied) >= 2 /\ asked.op = "EstimateTimeToTarget"

\* C5. After the first Update the history holds that one sample, the time
\* constant is 3600 and no re-estimation ran; after two Updates the time
\* constant is still 3600; a re-estimation runs only in an Update that leaves
\* at least 3 samples.
C5_FirstUpdates ==
    /\ Len(supplied) = 1 =>
          /\ ep.temperatures = <<supplied[1].probeTemp>>
          /\ ep.timestamps = <<supplied[1].timestamp>>
          /\ ep.timeConstant = 3600
          /\ ~last.refit
    /\ Len(supplied) = 2 => ep.timeConstant = 3600 /\ ~last.refit
    /\ last.refit => Len(ep.temperatures) >= 3

\* C5: the third Update re-estimated and changed the time constant
C5_Witness == Len(supplied) = 3 /\ last.refit /\ ep.timeConstant # 3600

\* C6 as stated: every result of EstimateTimeToTarget is at least zero and at
\* most 8 hours.
C6_Bounded ==
    \A a \in Answers : a.est.eta >= 0 /\ a.est.eta <= 8 * 3600 * 1000

\* C7. EstimateTimeToTarget returns zero when the predictor is uninitialized
\* and when the most recently recorded probe temperature is at or above target.
C7_ZeroWhenDone ==
    \A a \in Answers :
        (IF ep.initialized THEN LatestProbe >= a.target ELSE TRUE) => a.est.eta = 0

\* C7: a direct call on a fitted predictor whose probe has reached the target
C7_Witness ==
    /\ asked.op = "EstimateTimeToTarget"
    /\ ep.initialized
    /\ Len(supplied) >= 3
    /\ LatestProbe >= asked.target
    /\ ep.temperatures[1] < asked.target

\* the precondition of C8 for the answer a: initialized, latest probe below the
\* target, and |startTemp - Eq| < 0.1 or (target - Eq)/(startTemp - Eq) is
\* <= 0 or >= 1
C8_Degenerate(a) ==
    LET num == a.target - EqFor(a.target)
        den == ep.startTemp - EqFor(a.target)
    IN  /\ ep.initialized
        /\ LatestProbe < a.target
        /\ \/ Abs(den) < 100
           \/ num = 0
           \/ (num > 0 /\ den < 0) \/ (num < 0 /\ den > 0)
           \/ Abs(num) >= Abs(den)

\* C8 as stated: a degenerate inversion evaluates no logarithm and returns the
\* linear estimator's result for the target of the call.
C8_Original ==
    \A a \in Answers :
        C8_Degenerate(a) =>
            /\ a.est.path # "exponential"
            /\ a.est.eta = linearTimeToTarget(ep, a.target)

\* C8, amended. A degenerate inversion evaluates no logarithm and returns the
\* linear estimator's result for the target used in the solve: the target of
\* the call, or the effective equilibrium when the target exceeds it; when the
\* target exceeds the equilibrium and the latest probe is at or above the
\* equilibrium it returns zero.
C8_Fallback ==
    \A a \in Answers :
        C8_Degenerate(a) =>
            /\ a.est.path # "exponential"
            /\ a.est.eta =
                 (IF a.target > EqFor(a.target)
                  THEN IF LatestProbe >= EqFor(a.target) THEN 0
                       ELSE linearTimeToTarget(ep, EqFor(a.target))
                  ELSE linearTimeToTarget(ep, a.target))

\* C8: a degenerate inversion answered by the linear estimator with a positive
\* duration
C8_Witness ==
    \E a \in Answers :
        /\ C8_Degenerate(a)
        /\ a.est.path \in {"linear_ratio", "linear_denominator"}
        /\ a.est.eta > 0

\* C9 as stated: when the target exceeds the effective equilibrium the result
\* is zero if the latest probe is at or above the equilibrium, and otherwise
\* comes from solving the exponential curve for the equilibrium.
C9_Unreachable ==
    \A a \in Answers :
        (ep.initialized /\ a.target > EqFor(a.target)) =>
            IF LatestProbe >= EqFor(a.target)
            THEN a.est.eta = 0
            ELSE a.est.path = "exponential"

\* C10. Blending: for a processed status with the probe below a positive
\* target, the published ETA is the exponential ETA exactly when the predictor
\* is initialized and that ETA is above 0 and below 24 hours, and is the
\* legacy linear ETA otherwise.
C10_Blending ==
    (last.op = "status" /\ last.msg.ProbeSet > 0 /\ last.msg.Probe < last.msg.ProbeSet) =>
        LET e == EstimateTimeToTarget(ep, Deg(last.msg.ProbeSet)).eta
            useExp == ep.initialized /\ e > 0 /\ e < 24 * 3600 * 1000
        IN  /\ (last.etaSource = "exponential") <=> useExp
            /\ last.msg.ProbeETA =
                 (IF useExp THEN e ELSE calculateProbeETA(history, last.msg))

\* C10: the exponential ETA is published and differs from a positive legacy ETA
C10_Witness ==
    /\ last.op = "status"
    /\ last.etaSource = "exponential"
    /\ last.legacyETA > 0
    /\ last.legacyETA # last.msg.ProbeETA
    /\ Len(supplied) >= 3

\* C11 as stated: a processed status whose probe temperature or probe target
\* is not positive changes neither the predictor nor the history that
\* calculateProbeETA reads.
C11_Ignored ==
    [][ (env'.n # env.n /\ last'.op = "status"
           /\ (last'.msg.Probe <= 0 \/ last'.msg.ProbeSet <= 0))
        => (ep' = ep /\ history' = history) ]_vars

\* the status the loop processed last is later than the oldest history entry
C12_Computes == last.op = "status" /\ history # <<>> /\ last.msg.Time > history[1].Time

\* C12. calculateProbeETA returns a duration from 0 to 24 hours: 0 when the
\* probe is above its target (a negative quotient), and exactly 24 hours when
\* the quotient tempRemaining / adjustedRate exceeds 24 hours.
C12_LegacyRange ==
    last.op = "status" =>
        /\ calculateProbeETA(history, last.msg) >= 0
        /\ calculateProbeETA(history, last.msg) <= 24 * 3600 * 1000
        /\ (C12_Computes /\ last.msg.ProbeSet < last.msg.Probe)
              => calculateProbeETA(history, last.msg) = 0
        /\ (C12_Computes /\ last.msg.ProbeSet >= last.msg.Probe
              /\ MulDiv(RateScale, last.msg.ProbeSet - last.msg.Probe,
                        AdjustedRate(history, last.msg)) > 24 * 3600)
              => calculateProbeETA(history, last.msg) = 24 * 3600 * 1000

\* C12: a falling probe, whose quotient is above 24 hours and is capped
C12_Witness ==
    /\ C12_Computes
    /\ last.msg.Probe > 0
    /\ last.msg.Probe < history[1].Probe
    /\ MulDiv(RateScale, last.msg.ProbeSet - last.msg.Probe,
              AdjustedRate(history, last.msg)) > 24 * 3600
    /\ calculateProbeETA(history, last.msg) = 24 * 3600 * 1000

\* the predictor and the legacy history hold the same samples, the status
\* processed last being the newest of them
C13_SameSamples ==
    /\ last.op = "status"
    /\ Len(history) >= 2
    /\ Len(ep.temperatures) = Len(history)
    /\ \A i \in 1..Len(history) :
          /\ ep.temperatures[i] = Deg(history[i].Probe)
          /\ ep.timestamps[i] = history[i].Time
    /\ history[Len(history)] = [last.msg EXCEPT !.ProbeETA = 0]

Queries ==
    {"PredictTemperature", "EstimateTimeToTarget", "GetCurrentState",
     "GetUncertainty", "GetTimeConstant", "IsInitialized"}

\* C14. A call of PredictTemperature, EstimateTimeToTarget, GetCurrentState,
\* GetUncertainty, GetTimeConstant or IsInitialized leaves every field of the
\* predictor (and the loop's history) as it was, so the ETA computed after the
\* call is the ETA that would have been computed before it.
C14_QueriesReadOnly ==
    [][ (asked.op = "none" /\ asked'.op \in Queries)
        => /\ ep' = ep
           /\ history' = history
           /\ \A t \in QueryTargets :
                 EstimateTimeToTarget(ep', Deg(t)) = EstimateTimeToTarget(ep, Deg(t)) ]_vars

\* C14: GetUncertainty is being called on a predictor holding more samples
\* than the call reads
C14_Witness ==
    /\ asked.op = "GetUncertainty"
    /\ ep.initialized
    /\ Len(ep.temperatures) > 5
    /\ asked.value = GetUncertainty(ep)

\* C15. Two PredictTemperature calls with the same instant and no Update
\* between them return the same value, and a call for an instant before the
\* session start returns startTemp.
C15_Repeatable ==
    asked.op = "PredictTemperature" =>
        /\ (answered.op = "PredictTemperature" /\ answered.time = asked.time)
              => asked.value = answered.value
        /\ asked.time < ep.startTime => asked.value = ep.startTemp

\* C15: a second call for an instant before the start of a session under way
C15_Witness ==
    /\ asked.op = "PredictTemperature"
    /\ answered.op = "PredictTemperature"
    /\ answered.time = asked.time
    /\ ep.initialized
    /\ Len(ep.temperatures) > 1
    /\ asked.time < ep.startTime
    /\ asked.value = ep.startTemp
    /\ ep.startTemp # PredictTemperature(ep, env.time + 3600)

\* |retrodicted - observed| for the k-th newest sample (k = 0 is the newest)
C16_Residual(k) ==
    LET i == Len(ep.temperatures) - k
        elapsed == ep.timestamps[i] - ep.startTime
        retrodicted ==
            IF elapsed < 0 THEN ep.startTemp
            ELSE ep.targetTemp - MulDiv(ep.targetTemp - ep.startTemp,
                                        ExpNeg(elapsed, ep.timeConstant), ExpScale)
    IN  Abs(retrodicted - ep.temperatures[i])

\* C16 as stated: 5.0 below three samples, 2.0 with three or four samples, and
\* the mean absolute residual of the last five only from five samples on.
C16_Original ==
    asked.op = "GetUncertainty" =>
        IF ~ep.initialized \/ Len(ep.temperatures) < 3 THEN asked.value = 5 * TempScale
        ELSE IF Len(ep.temperatures) < 5 THEN asked.value = 2 * TempScale
        ELSE asked.value =
                (C16_Residual(0) + C16_Residual(1) + C16_Residual(2)
                    + C16_Residual(3) + C16_Residual(4)) \div 5

\* C16 amended. GetUncertainty returns 5.0 when the predictor is uninitialized
\* or holds fewer than 3 samples; otherwise it returns the mean absolute
\* residual of the last min(5, n) samples, so with 3 or 4 samples it is the
\* mean over all of them and the 2.0 default is never returned.
C16_Uncertainty ==
    asked.op = "GetUncertainty" =>
        IF ~ep.initialized \/ Len(ep.temperatures) < 3 THEN asked.value = 5 * TempScale
        ELSE asked.value =
                (C16_Residual(0) + C16_Residual(1) + C16_Residual(2)
                    + (IF Len(ep.temperatures) >= 4 THEN C16_Residual(3) ELSE 0)
                    + (IF Len(ep.temperatures) >= 5 THEN C16_Residual(4) ELSE 0))
                \div Min(5, Len(ep.temperatures))

\* C16: GetUncertainty called with three or four samples recorded
C16_Witness ==
    /\ asked.op = "GetUncertainty"
    /\ ep.initialized
    /\ Len(ep.temperatures) \in {3, 4}
    /\ asked.value # 2 * TempScale
    /\ asked.value # 5 * TempScale

\* the raw equilibrium of the reference, for chamber temperature c and target t
C17_Raw(c, t) ==
    LET d == c - t
    IN  IF d > Deg(50) THEN t + Min(d \div 10, Deg(10))
        ELSE IF Deg(20) < d /\ d <= Deg(50) THEN t + d \div 5
        ELSE IF 0 < d /\ d <= Deg(20) THEN t + d \div 2
        ELSE c + Max((3 * d) \div 10, -Deg(20))

\* fifty times the stability factor of the reference: 50 - |c - setPoint| in
\* degrees, clamped into 25..50
C17_Stability50(c, setPoint) ==
    Min(Max(50 - Abs(c - setPoint) \div TempScale, 25), 50)

C18_Band(c, t) ==
    IF c - t > Deg(50) THEN 4
    ELSE IF c - t > Deg(20) THEN 3
    ELSE IF c - t > 0 THEN 2
    ELSE 1

\* the two chamber temperatures of the evaluation lie in one band, the first
\* not above the second
C18_Ordered ==
    /\ eqCall.done
    /\ eqCall.grillTemp <= eqCall.otherGrillTemp
    /\ C18_Band(eqCall.grillTemp, eqCall.probeTarget)
          = C18_Band(eqCall.otherGrillTemp, eqCall.probeTarget)

\* C18 as stated: for a fixed target and set-point the effective equilibrium
\* is non-decreasing in the chamber temperature within each band.
C18_Original ==
    C18_Ordered => eqCall.value <= eqCall.otherValue

\* C18 amended. Within a band the effective equilibrium is non-decreasing in
\* the chamber temperature when the two chamber temperatures have the same
\* stability factor; when the factor differs the equilibrium can decrease.
C18_MonotoneAtEqualStability ==
    (C18_Ordered
       /\ C17_Stability50(eqCall.grillTemp, eqCall.grillSetTemp)
            = C17_Stability50(eqCall.otherGrillTemp, eqCall.grillSetTemp))
    => eqCall.value <= eqCall.otherValue

\* C18: two chamber temperatures of the band 20 < d <= 50 with the same
\* stability factor and a strictly higher equilibrium at the hotter one
C18_Witness ==
    /\ C18_Ordered
    /\ C18_Band(eqCall.grillTemp, eqCall.probeTarget) = 3
    /\ eqCall.grillTemp < eqCall.otherGrillTemp
    /\ C17_Stability50(eqCall.grillTemp, eqCall.grillSetTemp)
          = C17_Stability50(eqCall.otherGrillTemp, eqCall.grillSetTemp)
    /\ eqCall.value < eqCall.otherValue

\* at least ten Update calls so far, their probe temperatures strictly
\* decreasing and all below target
C19_Falling(target) ==
    /\ Len(supplied) >= 10
    /\ \A i \in 1..(Len(supplied) - 1) :
          supplied[i + 1].probeTemp < supplied[i].probeTemp
    /\ \A i \in 1..Len(supplied) : supplied[i].probeTemp < target

C20_Reads(n) ==
    {n - 1}
      \cup (IF n >= 3 THEN RecentIndices(ep) ELSE {})
      \cup (IF n >= 2 THEN {n - Min(5, n), n - 1} ELSE {})
      \cup (IF n >= minDataPoints THEN Max(0, n - FitWindow)..(n - 1) ELSE {})

\* C20. In every reachable state of the predictor the four history slices
\* have the same length, every index an operation reads lies within them, and
\* every call of a query has returned a value.
C20_NoFault ==
    LET n == Len(ep.temperatures) IN
    /\ Len(ep.grillTemps) = n
    /\ Len(ep.grillSetTemps) = n
    /\ Len(ep.timestamps) = n
    /\ n <= MaxHistory
    /\ ~ep.initialized => n = 0
    /\ ep.initialized => (n >= 1 /\ C20_Reads(n) \subseteq 0..(n - 1))
    /\ asked.op = "PredictTemperature" => asked.value = PredictTemperature(ep, asked.time)
    /\ asked.op = "EstimateTimeToTarget" => asked.est.eta >= 0
    /\ asked.op = "GetCurrentState" => asked.value = getCurrentTemperature(ep)
    /\ asked.op = "GetUncertainty" => asked.value >= 0

\* C20: a query in progress on a full history from which Update has evicted
C20_Witness ==
    /\ asked.op = "GetUncertainty"
    /\ ep.initialized
    /\ Len(ep.temperatures) = MaxHistory
    /\ Len(supplied) > MaxHistory

\* the window estimateTimeConstant fits on predictor q: Go index of its start
C21_StartIdx(q) == IF Len(q.temperatures) > 10 THEN Len(q.temperatures) - 10 ELSE 0

\* the least mean-squared error among the candidates 300, 600, ..., 28800
C21_Least(q, errs) == CHOOSE e \in errs : \A f \in errs : e <= f

\* the hysteresis rule on q, the predictor as the fit finds it, for the time
\* constant new the Update leaves behind, the error cur of q's own time
\* constant and the least candidate error least
C21_Rule(q, new, cur, least) ==
    IF 10 * least < 9 * cur
    THEN /\ new \in TauCandidates
         /\ calculateErrorWithGrillDynamics(q, new, C21_StartIdx(q)) = least
    ELSE new = q.timeConstant

\* C21. Hysteresis: an Update of an initialized predictor changes timeConstant
\* only when the least mean-squared error among the candidates is strictly
\* below 0.9 times that of the current timeConstant over the same window of at
\* most 10 samples; the new value is then a candidate of least error, and
\* otherwise timeConstant is exactly what it was.
C21_Hysteresis ==
    [][ (ep.initialized /\ ep' # ep)
        => IF Len(ep'.temperatures) < 3 THEN ep'.timeConstant = ep.timeConstant
           ELSE \E q \in {[ep' EXCEPT !.timeConstant = ep.timeConstant]} :
                  C21_Rule(q, ep'.timeConstant,
                      calculateErrorWithGrillDynamics(q, q.timeConstant, C21_StartIdx(q)),
                      C21_Least(q, { calculateErrorWithGrillDynamics(q, tau, C21_StartIdx(q)) :
                                       tau \in TauCandidates })) ]_vars

\* C21: a refit has replaced the default time constant by a candidate
C21_Witness ==
    /\ last.op = "status"
    /\ last.refit
    /\ Len(ep.temperatures) >= 3
    /\ ep.timeConstant \in TauCandidates \ {DefaultTau}

\* C22 as stated: every re-estimation evaluates the grid 300, 600, ..., 28800,
\* which is 97 candidates.
C22_Original ==
    (last.op = "status" /\ last.refit) =>
        /\ \A tau \in TauCandidates : tau % 300 = 0 /\ 300 <= tau /\ tau <= 28800
        /\ Cardinality(TauCandidates) = 97

\* C22 amended. Every re-estimation evaluates the same fixed grid, whatever
\* the data: tau = 300, 600, ..., 28800 seconds in steps of 300, which is 96
\* candidates; the time constant of an initialized predictor is the default
\* 3600 or one of them.
C22_Grid ==
    /\ (last.op = "status" /\ last.refit) =>
          /\ \A tau \in TauCandidates : tau % 300 = 0 /\ 300 <= tau /\ tau <= 28800
          /\ \A k \in 1..96 : 300 * k \in TauCandidates
          /\ Cardinality(TauCandidates) = 96
    /\ ep.initialized =>
          (ep.timeConstant % 300 = 0 /\ 300 <= ep.timeConstant /\ ep.timeConstant <= 28800)

\* C22: a re-estimation that chose the last candidate of the grid
C22_Witness ==
    /\ last.op = "status"
    /\ last.refit
    /\ ep.timeConstant = 28800

\* C23 as stated: whenever calculateProbeETA reaches its adjustment factors,
\* the differential factor is 1.1 for (Grill - Probe) > 50, 0.6 below 10,
\* 0.8 from 10 to below 20, and 1.0 otherwise.
C23_DifferentialFactor ==
    C12_Computes =>
        differentialAdjustment(last.msg) =
            (IF last.msg.Grill - last.msg.Probe > 50 THEN 110
             ELSE IF last.msg.Grill - last.msg.Probe < 10 THEN 60
             ELSE IF last.msg.Grill - last.msg.Probe < 20 THEN 80
             ELSE 100)

\* C24 as stated: the history handed to calculateProbeETA holds at most 5
\* entries, also in a session started with history loaded from the output file.
C24_FiveSamples ==
    (last.op = "status" /\ last.blended) => Len(history) <= 5

\* C25. Whenever calculateProbeETA reaches its rate computation, a falling
\* trend has the base rate of 1 degree per hour and a stable trend 0.5 degree
\* per hour, and the base rate, the weighted rate and the adjusted rate are
\* all strictly positive, so the ETA is never divided by zero or by a
\* negative rate.
C25_PositiveRates ==
    C12_Computes =>
        /\ last.msg.Probe < history[1].Probe
              => BaseRate(history, last.msg) = 1000000 \div 3600
        /\ last.msg.Probe = history[1].Probe
              => BaseRate(history, last.msg) = 500000 \div 3600
        /\ BaseRate(history, last.msg) > 0
        /\ RecentRate(history, last.msg) >= 0
        /\ WeightedRate(RecentRate(history, last.msg), BaseRate(history, last.msg)) > 0
        /\ AdjustedRate(history, last.msg) > 0

\* C25: a probe that has fallen since the first history entry
C25_Witness ==
    /\ C12_Computes
    /\ last.msg.Probe > 0
    /\ last.msg.Probe < history[1].Probe
    /\ BaseRate(history, last.msg) = FallingRate
    /\ AdjustedRate(history, last.msg) > 0

\* |fitted curve - observed| for the k-th newest sample (k = 0 is the newest):
\* the curve of predictAtTimeWithGrillDynamics with that sample's own grill
\* readings and the current time constant
C26_FittedResidual(k) ==
    LET i == Len(ep.temperatures) - k
    IN  Abs(predictAtTimeWithGrillDynamics(ep, ep.timestamps[i], ep.timeConstant, i - 1)
              - ep.temperatures[i])

\* C26 as stated: with three or more samples GetUncertainty is the mean, over
\* the last five samples at most, of the residuals of the curve that the fit
\* and PredictTemperature evaluate.
C26_FittedModel ==
    (asked.op = "GetUncertainty" /\ ep.initialized /\ Len(ep.temperatures) >= 3) =>
        asked.value =
            (C26_FittedResidual(0) + C26_FittedResidual(1) + C26_FittedResidual(2)
                + (IF Len(ep.temperatures) >= 4 THEN C26_FittedResidual(3) ELSE 0)
                + (IF Len(ep.temperatures) >= 5 THEN C26_FittedResidual(4) ELSE 0))
            \div Min(5, Len(ep.temperatures))

\* C27. login authenticates with username and password exactly when no ID
\* token is held and with the refresh token otherwise; while the latest login
\* is one whose InitiateAuth call failed the held ID token is empty, so the
\* login after it uses username and password; a login that succeeded has
\* stored the ID token of the response, and the refresh token of the response
\* or, when it carries none, the refresh token held before.
C27_Login ==
    net.auth.flow # "none" =>
        /\ net.auth.flow = "basic" <=> net.auth.held = 0
        /\ net.auth.flow = "refresh" <=> net.auth.held # 0
        /\ net.auth.err = "initiate_auth" => client.conn.idToken = 0
        /\ net.auth.previous = "initiate_auth" => net.auth.flow = "basic"
        /\ net.auth.err = "nil" =>
              /\ client.conn.idToken = net.auth.idToken
              /\ client.conn.idToken # 0
              /\ client.conn.refreshToken =
                    (IF net.auth.refreshToken = 0 THEN net.auth.refreshHeld
                     ELSE net.auth.refreshToken)

\* C27: a login with username and password that follows a login whose
\* InitiateAuth call failed, and that succeeded on a response without a
\* refresh token
C27_Witness ==
    /\ net.auth.previous = "initiate_auth"
    /\ net.auth.flow = "basic"
    /\ net.auth.err = "nil"
    /\ net.auth.refreshToken = 0
    /\ net.auth.refreshHeld # 0
    /\ client.conn.refreshToken = net.auth.refreshHeld

\* the error an mqttConnect returns for each way it may end
C28_ConnectError(outcome) ==
    IF outcome = "ok" THEN "nil"
    ELSE IF outcome = "http_error" THEN "http" ELSE "connect"

\* C28. MQTTConnect returns nil without a network call when the connected
\* flag is set; otherwise it calls mqttConnect once and, only if that fails,
\* login once and then, only if the login succeeds, mqttConnect once more,
\* returning the login's error or the second attempt's result; it makes at
\* most one login and two connection attempts per call.
C28_ConnectOnce ==
    net.op = "MQTTConnect" =>
        /\ Len(net.calls) <= 3
        /\ Cardinality({ i \in 1..Len(net.calls) : net.calls[i] = "login" }) <= 1
        /\ IF net.wasConnected
           THEN net.calls = <<>> /\ net.err = "nil"
           ELSE IF net.first = "ok"
           THEN net.calls = <<"mqttConnect">> /\ net.err = "nil"
           ELSE IF net.auth.err # "nil"
           THEN net.calls = <<"mqttConnect", "login">> /\ net.err = net.auth.err
           ELSE /\ net.calls = <<"mqttConnect", "login", "mqttConnect">>
                /\ net.err = C28_ConnectError(net.second)

\* C28: MQTTConnect called when the connected flag had been set since the
\* loop's own test of it
C28_Witness ==
    /\ net.op = "MQTTConnect"
    /\ net.wasConnected
    /\ net.calls = <<>>
    /\ net.err = "nil"
    /\ net.issued >= 2

\* C29 as stated: whenever monitor.Run invokes MQTTDisconnect an MQTT client
\* has been created, and Run returns without a fault also when its context is
\* cancelled after every MQTTConnect so far has failed.
C29_ClientCreated ==
    /\ net.pc \in {"cleanup", "disconnect"} => client.conn.mqttClient = "created"
    /\ net.pc # "fault"

\* C30. A status that reports the grill as not connected, and a message that
\* failed to decode, is dropped before any processing: the predictor, the
\* observations handed to it and the fallback history stay as they were, and
\* the message gets no ETA and is not written to the output.
C30_Dropped ==
    [][ (env'.n # env.n /\ (~last'.msg.Connected \/ last'.msg.Error))
        => /\ ep' = ep
           /\ supplied' = supplied
           /\ history' = history
           /\ last'.op = "dropped"
           /\ ~last'.updated
           /\ ~last'.blended
           /\ last'.msg.ProbeETA = 0
           /\ ~last'.written ]_vars

\* C30: a message that failed to decode, dropped in the middle of a session
C30_Witness ==
    /\ last.op = "dropped"
    /\ last.msg.Error
    /\ ~last.msg.Connected
    /\ ~last.written
    /\ ep.initialized
    /\ Len(history) >= 2

====
